---- MODULE Spec2Model ----
(***************************************************************************)
(* The conversation registry commands of src-tauri/src/commands.rs: a map  *)
(* of event-sourced conversations behind one tauri/tokio RwLock, saved to  *)
(* disk as one snapshot and announced to the UI with emit_all.             *)
(*                                                                         *)
(* Text is a sequence of tokens (" " is white space), so that trim and     *)
(* Uuid::parse_str are conversions and not the identity.  An await is the  *)
(* boundary between two actions; the code between two awaits is one        *)
(* action, except that a write_to_disk under a read guard is two           *)
(* (serialize, then write the file), since other holders of a read guard   *)
(* run beside it.  ret describes the step just taken: what it returned to  *)
(* its caller and what it emitted; a step that returns nothing clears it.  *)
(***************************************************************************)
EXTENDS Integers, Sequences, FiniteSets, TLC

VARIABLES
    conversations,  \* mgr.conversations : Uuid -> Conversation
    writer,         \* holder of the RwLock write guard, or None
    readers,        \* holders of a RwLock read guard
    disk,           \* the file at config.conversation_history_save_path
    pc,             \* position of each command invocation
    call,           \* the locals of each running invocation
    buf,            \* write_to_disk: the serialized registry not yet written
    ret,            \* the return the last step made, if it made one
    clock,          \* number of mutations applied: the time of a record
    lastLock,       \* the last write-guard section a mutating command ran
    failed,         \* times of the mutations whose own save failed
    log             \* the registry at the start and after each mutation

vars == <<conversations, writer, readers, disk, pc, call, buf, ret, clock,
          lastLock, failed, log>>

----------------------------------------------------------------------------
\* Bounds

\* Mutations (inserted conversations + appended events) in one behaviour.
MaxClock == 2

Procs == {"p1", "p2"}

None == "none"

----------------------------------------------------------------------------
\* Text, identifiers, errors

WhiteSpace == {" "}

DefaultTitle == <<"New", " ", "Conversation">>

TitleInputs == { <<"A">>, <<" ", "A", " ">>, <<" ">> \o DefaultTitle }

ContentInputs == { <<"hello">> }

AiReplies == { <<"reply">> }

\* The strings a caller may pass as conversation_id: two well-formed ids
\* (the Uuid values are "a" and "b") and a malformed one.
IdInputs == { <<"A">>, <<"b">>, <<"z">> }

MyError_FindByIDFail == "FindByIDFail"
MyError_UUIDParseFail == "UUIDParseFail"
MyError_ConversationWriteToDiskFail == "ConversationWriteToDiskFail"
MyError_EmitFail == "EmitFail"
MyError_ConversationEmptyFail == "ConversationEmptyFail"
MyError_ConversationAIResponseFail == "ConversationAIResponseFail"

\* The spec's names for the two identifier errors.
BadId == MyError_UUIDParseFail
NotFound == MyError_FindByIDFail

RECURSIVE TrimStart(_)
TrimStart(s) ==
    IF s # <<>> /\ Head(s) \in WhiteSpace THEN TrimStart(Tail(s)) ELSE s

RECURSIVE TrimEnd(_)
TrimEnd(s) ==
    IF s # <<>> /\ s[Len(s)] \in WhiteSpace
    THEN TrimEnd(SubSeq(s, 1, Len(s) - 1))
    ELSE s

\* Faulty variant, for comparison: only leading white space is removed.
TrimStartOnly(s) == TrimStart(s)

\* str::trim
Trim(s) == TrimEnd(TrimStart(s))

\* One hex digit, either case, to its value's lower-case name.
HexDigit(ch) ==
    CASE ch \in {"a", "A"} -> "a"
      [] ch \in {"b", "B"} -> "b"
      [] OTHER -> None

\* uuid::Uuid::parse_str: Ok(uuid) or Err.
ParseUuid(s) ==
    IF Len(s) = 1 /\ HexDigit(s[1]) # None
    THEN [ok |-> TRUE, uuid |-> HexDigit(s[1])]
    ELSE [ok |-> FALSE, uuid |-> None]

----------------------------------------------------------------------------
\* Events and conversations (crate::models)

MessageAdded(author, content) ==
    [type |-> "MessageAdded", author |-> author, content |-> content]

TitleChanged(new_title) ==
    [type |-> "TitleChanged", new_title |-> new_title]

\* Conversation::new with the id Uuid::new_v4 drew.
NewConversation(id) == [id |-> id, history |-> <<>>]

\* Conversation::add_event: append a record of the event and the time.
AddEvent(conv, event, now) ==
    [conv EXCEPT !.history = Append(@, [event |-> event, timestamp |-> now])]

RECURSIVE LastTitle(_)
LastTitle(history) ==
    IF history = <<>> THEN DefaultTitle
    ELSE IF history[Len(history)].event.type = "TitleChanged"
         THEN history[Len(history)].event.new_title
         ELSE LastTitle(SubSeq(history, 1, Len(history) - 1))

\* Conversation::get_title
GetTitle(conv) == LastTitle(conv.history)

RECURSIVE Messages(_)
Messages(history) ==
    IF history = <<>> THEN <<>>
    ELSE IF Head(history).event.type = "MessageAdded"
         THEN <<[author |-> Head(history).event.author,
                 content |-> Head(history).event.content]>>
              \o Messages(Tail(history))
         ELSE Messages(Tail(history))

\* Conversation::into_chatgpt_conversation: the history handed to the adapter.
IntoChatgptConversation(conv) == Messages(conv.history)

\* Uuid::new_v4: an id no conversation has.  Ids are interchangeable, so the
\* first unused one stands for the draw.
NewV4(used) ==
    IF "a" \notin used THEN {"a"}
    ELSE IF "b" \notin used THEN {"b"}
    ELSE {}

EmptyRegistry == <<>>

\* Faulty variant, for comparison: the map is replaced by one that holds the new entry alone.
InsertAlone(map, id, conv) == [u \in {id} |-> conv]

\* HashMap::insert
Insert(map, id, conv) ==
    [u \in DOMAIN map \cup {id} |-> IF u = id THEN conv ELSE map[u]]

----------------------------------------------------------------------------
\* The RwLock

\* Faulty variant, for comparison: a write guard is granted while read guards are out.
CanWriteBesideReaders == writer = None

\* conversation_manager.write().await can return
CanWrite == writer = None /\ readers = {}

\* conversation_manager.read().await can return
CanRead == writer = None

----------------------------------------------------------------------------
\* Invocations

ReadOps ==
    {"list_conversation_titles", "get_conversation", "get_conversation_title",
     "get_conversation_messages"}

\* The locals of an invocation: the parsed conversation_id, the text it adds
\* (new_title_trimmed, content or response), the time of the record it added,
\* the registry and file as they were when it took the write guard, how far
\* it got (id parsed, conversation found, write_to_disk and send_message
\* results), and what it sent to the adapter.
NoCall ==
    [op |-> None, conversation_id |-> None, arg |-> <<>>, stamp |-> 0,
     pre |-> EmptyRegistry, preDisk |-> EmptyRegistry, second |-> "no",
     wellformed |-> TRUE, found |-> FALSE, saved |-> None, ai |-> None,
     prompt |-> <<>>, context |-> <<>>]

NoPayload == [name |-> None]

\* What a return step records: the invocation's locals, its result, and the
\* payload it emitted.
Returned(c, err, val, payload) ==
    [op |-> c.op, conversation_id |-> c.conversation_id, arg |-> c.arg,
     stamp |-> c.stamp, pre |-> c.pre, preDisk |-> c.preDisk,
     second |-> c.second, wellformed |-> c.wellformed, found |-> c.found,
     saved |-> c.saved, ai |-> c.ai, prompt |-> c.prompt,
     context |-> c.context, err |-> err, val |-> val,
     payload |-> payload]

NoRet == Returned(NoCall, None, <<>>, NoPayload)

NoLock == [op |-> None, id |-> None, title |-> <<>>, appended |-> FALSE]

\* The registry the application loaded from the file when it started: here,
\* one conversation that holds one user message.
Loaded ==
    Insert(EmptyRegistry, "b",
           AddEvent(NewConversation("b"), MessageAdded("User", <<"hello">>), 0))

Init ==
    /\ conversations = Loaded
    /\ writer = None
    /\ readers = {}
    /\ disk = conversations
    /\ pc = [p \in Procs |-> "idle"]
    /\ call = [p \in Procs |-> NoCall]
    /\ buf = [p \in Procs |-> EmptyRegistry]
    /\ ret = NoRet
    /\ clock = 0
    /\ lastLock = NoLock
    /\ failed = {}
    /\ log = <<conversations>>

----------------------------------------------------------------------------
\* Shared steps

Idle(p) == pc[p] = "idle"

\* The invocation of p returns err (None for Ok) and val to its caller.
Return(p, c, err, val, payload) ==
    /\ pc' = [pc EXCEPT ![p] = "idle"]
    /\ call' = [call EXCEPT ![p] = NoCall]
    /\ ret' = Returned(c, err, val, payload)

\* The invocation of p goes on, with locals c.
Goto(p, label, c) ==
    /\ pc' = [pc EXCEPT ![p] = label]
    /\ call' = [call EXCEPT ![p] = c]
    /\ ret' = NoRet

\* Faulty variant, for comparison: the snapshot is the registry as the command found it.
SerializeStale(p) == buf' = [buf EXCEPT ![p] = call[p].pre]

\* write_to_disk is called on the whole manager: the map is serialized.
Serialize(p) == buf' = [buf EXCEPT ![p] = conversations]

\* The file after write_to_disk wrote `bytes`, or failed to: the file is
\* replaced as one unit or keeps its content.
WriteFile(bytes, ok) == IF ok THEN bytes ELSE disk

\* Faulty variant, for comparison: the result of write_to_disk is dropped instead of returned.
WriteToDiskResultIgnored(ok) == None

\* `.map_err(|_| MyError::ConversationWriteToDiskFail)?` : what the command
\* does with the result of write_to_disk.
WriteToDiskResult(ok) ==
    IF ok THEN None ELSE MyError_ConversationWriteToDiskFail

\* Faulty variant, for comparison: the result of emit_all is dropped instead of returned.
EmitResultIgnored(ok) == None

\* `.map_err(|_| MyError::EmitFail)?` on the result of emit_all.
EmitResult(ok) == IF ok THEN None ELSE MyError_EmitFail

Payload(name, id, title, author, content, stamp) ==
    [name |-> name, conversation_id |-> id, title |-> title,
     author |-> author, content |-> content, stamp |-> stamp]

\* The save that set_conversation_title, new_conversation_user_message and
\* new_conversation_assistant_message run: read().await, then write_to_disk
\* under the read guard, which is dropped at the end of the statement.
SaveUnderReadGuard(p, from, mid) ==
    /\ pc[p] = from
    /\ CanRead
    /\ readers' = readers \cup {p}
    /\ Serialize(p)
    /\ Goto(p, mid, call[p])
    /\ UNCHANGED <<conversations, writer, disk, failed, clock, log, lastLock>>

WriteUnderReadGuard(p, mid, next) ==
    /\ pc[p] = mid
    /\ \E ok \in BOOLEAN :
        LET c == [call[p] EXCEPT !.saved = IF ok THEN "ok" ELSE "fail"] IN
        /\ disk' = WriteFile(buf[p], ok)
        /\ failed' = IF ok THEN failed ELSE failed \cup {c.stamp}
        /\ IF WriteToDiskResult(ok) = None
           THEN Goto(p, next, c)
           ELSE Return(p, c, WriteToDiskResult(ok), <<>>, NoPayload)
    /\ buf' = [buf EXCEPT ![p] = EmptyRegistry]
    /\ readers' = readers \ {p}
    /\ UNCHANGED <<conversations, writer, clock, log, lastLock>>

\* app_handle.emit_all(name, payload), the last statement of each command
Emit(p, from, payload, val) ==
    /\ pc[p] = from
    /\ \E ok \in BOOLEAN :
        Return(p, call[p], EmitResult(ok), IF ok THEN val ELSE <<>>,
               IF ok THEN payload ELSE NoPayload)
    /\ UNCHANGED <<conversations, writer, readers, disk, failed, buf, clock,
                   log, lastLock>>

----------------------------------------------------------------------------
\* Read commands: parse the id, read().await, look up, project, return.
\* Nothing of a read outlives its one step, so a read needs no caller of its
\* own: any number of them run beside the invocations of Procs.

\* A conversation_id the caller passes, parsed.
Parsed(op, ids) ==
    [NoCall EXCEPT !.op = op, !.conversation_id = ParseUuid(ids).uuid,
                   !.wellformed = ParseUuid(ids).ok]

\* The step returns err (None for Ok) and val to a caller that is not in Procs.
ReadReturn(c, err, val) ==
    /\ ret' = Returned(c, err, val, NoPayload)
    /\ UNCHANGED <<conversations, writer, readers, disk, failed, pc, call, buf, clock,
                   lastLock, log>>

\* Faulty variant, for comparison: every conversation is listed under the placeholder title.
list_conversation_titles_placeholder ==
    /\ CanRead
    /\ ReadReturn([NoCall EXCEPT !.op = "list_conversation_titles"], None,
                  [id \in DOMAIN conversations |-> DefaultTitle])

list_conversation_titles ==
    /\ CanRead
    /\ ReadReturn([NoCall EXCEPT !.op = "list_conversation_titles"], None,
                  [id \in DOMAIN conversations |-> GetTitle(conversations[id])])

Clone(conv) == conv

\* Faulty variant, for comparison: every record yields an entry, not only the MessageAdded ones.
MessagePayloadsOfAllEvents(conv) ==
    [i \in 1..Len(conv.history) |->
        IF conv.history[i].event.type = "MessageAdded"
        THEN [author |-> conv.history[i].event.author,
              content |-> conv.history[i].event.content]
        ELSE [author |-> None, content |-> conv.history[i].event.new_title]]

\* history.iter().filter_map(..).collect()
MessagePayloads(conv) == Messages(conv.history)

\* What each lookup command returns for the conversation it found.
Project(op, conv) ==
    CASE op = "get_conversation" -> Clone(conv)
      [] op = "get_conversation_title" -> GetTitle(conv)
      [] op = "get_conversation_messages" -> MessagePayloads(conv)

Lookup(op) ==
    \E ids \in IdInputs :
        LET c == Parsed(op, ids)
            id == c.conversation_id
        IN
        IF ~c.wellformed
        THEN ReadReturn(c, MyError_FindByIDFail, <<>>)
        ELSE /\ CanRead
             /\ IF id \notin DOMAIN conversations
                THEN ReadReturn(c, MyError_FindByIDFail, <<>>)
                ELSE ReadReturn([c EXCEPT !.found = TRUE], None,
                                Project(op, conversations[id]))

get_conversation == Lookup("get_conversation")

get_conversation_title == Lookup("get_conversation_title")

get_conversation_messages == Lookup("get_conversation_messages")

----------------------------------------------------------------------------
\* new_conversation

\* Faulty variant, for comparison: the key is another id than the conversation's own.
InsertKeyOfAnotherDraw(conv) == IF conv.id = "a" THEN "b" ELSE "a"

\* `insert(conv.id, ..)`: the key the new conversation is stored under.
InsertKey(conv) == conv.id

\* write().await, Conversation::new, insert: the guard stays held.
new_conversation_lock(p) ==
    /\ Idle(p)
    /\ CanWrite
    /\ clock < MaxClock
    /\ \E id \in NewV4(DOMAIN conversations) :
        /\ conversations' =
              Insert(conversations, InsertKey(NewConversation(id)),
                     NewConversation(id))
        /\ Goto(p, "nc_save",
                [NoCall EXCEPT !.op = "new_conversation",
                               !.conversation_id = id, !.found = TRUE,
                               !.stamp = clock + 1, !.pre = conversations])
        /\ lastLock' = [op |-> "new_conversation", id |-> id, title |-> <<>>,
                        appended |-> TRUE]
    /\ writer' = p
    /\ clock' = clock + 1
    /\ log' = Append(log, conversations')
    /\ UNCHANGED <<readers, disk, failed, buf>>

\* Faulty variant, for comparison: mgr lives to the end of the function.
KeptWhileEmitting(p) == p

\* `drop(mgr)` before emit_all: the holder of the write guard afterwards.
DropBeforeEmit(p) == None

\* mgr.write_to_disk under the write guard; then `?` returns and drops the
\* guard, or drop(mgr) does.
new_conversation_save(p) ==
    /\ pc[p] = "nc_save"
    /\ \E ok \in BOOLEAN :
        LET c == [call[p] EXCEPT !.saved = IF ok THEN "ok" ELSE "fail"] IN
        /\ disk' = WriteFile(conversations, ok)
        /\ failed' = IF ok THEN failed ELSE failed \cup {c.stamp}
        /\ IF WriteToDiskResult(ok) = None
           THEN /\ Goto(p, "nc_emit", c)
                /\ writer' = DropBeforeEmit(p)
           ELSE /\ Return(p, c, WriteToDiskResult(ok), <<>>, NoPayload)
                /\ writer' = None
    /\ UNCHANGED <<conversations, readers, buf, clock, log, lastLock>>

new_conversation_emit(p) ==
    LET conv == NewConversation(call[p].conversation_id) IN
    Emit(p, "nc_emit",
         Payload("new_conversation", conv.id, GetTitle(conv), None, <<>>,
                 call[p].stamp),
         conv)

----------------------------------------------------------------------------
\* set_conversation_title

\* Faulty variant, for comparison: the command never finds the title unchanged.
SameTitleUnchecked(current_title, new_title_trimmed) == FALSE

\* `current_title.as_ref() == new_title_trimmed`
SameTitle(current_title, new_title_trimmed) == current_title = new_title_trimmed

\* Parse and trim, then the block that holds the write guard: get_mut,
\* compare with get_title, add_event.  The guard is dropped at the block end.
set_conversation_title_lock(p) ==
    /\ Idle(p)
    /\ \E ids \in IdInputs, new_title \in TitleInputs :
        LET new_title_trimmed == Trim(new_title)
            c == [Parsed("set_conversation_title", ids)
                    EXCEPT !.arg = new_title_trimmed]
            id == c.conversation_id
        IN
        IF ~c.wellformed
        THEN /\ Return(p, c, MyError_UUIDParseFail, <<>>, NoPayload)
             /\ UNCHANGED <<conversations, clock, log, lastLock>>
        ELSE
        /\ CanWrite
        /\ IF id \notin DOMAIN conversations
           THEN /\ Return(p, [c EXCEPT !.pre = conversations, !.preDisk = disk],
                          MyError_FindByIDFail, <<>>, NoPayload)
                /\ lastLock' = NoLock
                /\ UNCHANGED <<conversations, clock, log>>
           ELSE
           LET second ==
                 IF /\ lastLock.op = "set_conversation_title"
                    /\ lastLock.id = id
                    /\ lastLock.title = new_title_trimmed
                 THEN IF lastLock.appended THEN "after_append" ELSE "after_noop"
                 ELSE "no"
               d == [c EXCEPT !.found = TRUE, !.second = second,
                              !.pre = conversations]
           IN
           IF SameTitle(GetTitle(conversations[id]), new_title_trimmed)
           THEN /\ Return(p, [d EXCEPT !.preDisk = disk], None, <<>>, NoPayload)
                /\ lastLock' = [op |-> "set_conversation_title", id |-> id,
                                title |-> new_title_trimmed, appended |-> FALSE]
                /\ UNCHANGED <<conversations, clock, log>>
           ELSE /\ clock < MaxClock
                /\ conversations' = [conversations EXCEPT ![id] =
                      AddEvent(@, TitleChanged(new_title_trimmed), clock + 1)]
                /\ clock' = clock + 1
                /\ log' = Append(log, conversations')
                /\ Goto(p, "st_save", [d EXCEPT !.stamp = clock + 1])
                /\ lastLock' = [op |-> "set_conversation_title", id |-> id,
                                title |-> new_title_trimmed, appended |-> TRUE]
    /\ UNCHANGED <<writer, readers, disk, failed, buf>>

set_conversation_title_save(p) == SaveUnderReadGuard(p, "st_save", "st_write")

set_conversation_title_write(p) == WriteUnderReadGuard(p, "st_write", "st_emit")

set_conversation_title_emit(p) ==
    Emit(p, "st_emit",
         Payload("conversation_title_changed", call[p].conversation_id,
                 call[p].arg, None, <<>>, call[p].stamp),
         <<>>)

----------------------------------------------------------------------------
\* new_conversation_user_message

\* Parse, then the block that holds the write guard: get_mut, add_event.
new_conversation_user_message_lock(p) ==
    /\ Idle(p)
    /\ \E ids \in IdInputs, content \in ContentInputs :
        LET c == [Parsed("new_conversation_user_message", ids)
                    EXCEPT !.arg = content]
            id == c.conversation_id
        IN
        IF ~c.wellformed
        THEN /\ Return(p, c, MyError_UUIDParseFail, <<>>, NoPayload)
             /\ UNCHANGED <<conversations, clock, log, lastLock>>
        ELSE
        /\ CanWrite
        /\ IF id \notin DOMAIN conversations
           THEN /\ Return(p, [c EXCEPT !.pre = conversations, !.preDisk = disk],
                          MyError_UUIDParseFail, <<>>, NoPayload)
                /\ lastLock' = NoLock
                /\ UNCHANGED <<conversations, clock, log>>
           ELSE /\ clock < MaxClock
                /\ conversations' = [conversations EXCEPT ![id] =
                      AddEvent(@, MessageAdded("User", content), clock + 1)]
                /\ clock' = clock + 1
                /\ log' = Append(log, conversations')
                /\ Goto(p, "um_save",
                        [c EXCEPT !.found = TRUE, !.stamp = clock + 1,
                                  !.pre = conversations])
                /\ lastLock' = [op |-> "new_conversation_user_message",
                                id |-> id, title |-> <<>>, appended |-> TRUE]
    /\ UNCHANGED <<writer, readers, disk, failed, buf>>

new_conversation_user_message_save(p) ==
    SaveUnderReadGuard(p, "um_save", "um_write")

new_conversation_user_message_write(p) ==
    WriteUnderReadGuard(p, "um_write", "um_emit")

new_conversation_user_message_emit(p) ==
    Emit(p, "um_emit",
         Payload("conversation_message_added", call[p].conversation_id, <<>>,
                 "User", call[p].arg, call[p].stamp),
         <<>>)

----------------------------------------------------------------------------
\* new_conversation_assistant_message

\* Faulty variant, for comparison: an empty history yields an empty prompt instead of nothing.
PopOrDefault(history) ==
    IF history = <<>>
    THEN [some |-> TRUE, item |-> [author |-> "User", content |-> <<>>],
          rest |-> <<>>]
    ELSE [some |-> TRUE, item |-> history[Len(history)],
          rest |-> SubSeq(history, 1, Len(history) - 1)]

\* Faulty variant, for comparison: the oldest message is taken as the prompt.
PopFront(history) ==
    IF history = <<>>
    THEN [some |-> FALSE, item |-> <<>>, rest |-> <<>>]
    ELSE [some |-> TRUE, item |-> Head(history), rest |-> Tail(history)]

\* `ai_conversation.history.pop()`: the last message and what stays, or
\* nothing.
Pop(history) ==
    IF history = <<>>
    THEN [some |-> FALSE, item |-> <<>>, rest |-> <<>>]
    ELSE [some |-> TRUE, item |-> history[Len(history)],
          rest |-> SubSeq(history, 1, Len(history) - 1)]

\* Faulty variant, for comparison: the pop takes the last record off the stored history.
PoppedInPlace(conv) ==
    [conv EXCEPT !.history = SubSeq(@, 1, Len(@) - 1)]

\* The stored conversation after `ai_conversation.history.pop()`:
\* ai_conversation is a value of its own, so conv is as it was.
ConvAfterPop(conv) == conv

\* Faulty variant, for comparison: the guard is dropped before send_message is awaited.
ReleasedBeforeSend(p) == None

\* The holder of the write guard while send_message is awaited: `mgr` lives
\* to the end of the block, so the invocation itself.
HeldAcrossSend(p) == p

\* Parse, write().await, get_mut, into_chatgpt_conversation, history.pop(),
\* and the start of send_message: the write guard stays held across the await.
new_conversation_assistant_message_lock(p) ==
    /\ Idle(p)
    /\ \E ids \in IdInputs :
        LET c == Parsed("new_conversation_assistant_message", ids)
            id == c.conversation_id
        IN
        IF ~c.wellformed
        THEN /\ Return(p, c, MyError_UUIDParseFail, <<>>, NoPayload)
             /\ UNCHANGED <<conversations, writer, lastLock>>
        ELSE
        /\ CanWrite
        /\ IF id \notin DOMAIN conversations
           THEN /\ Return(p, [c EXCEPT !.pre = conversations, !.preDisk = disk],
                          MyError_UUIDParseFail, <<>>, NoPayload)
                /\ lastLock' = NoLock
                /\ UNCHANGED <<conversations, writer>>
           ELSE
           LET ai_prompt == Pop(IntoChatgptConversation(conversations[id]))
               d == [c EXCEPT !.found = TRUE, !.pre = conversations,
                              !.preDisk = disk]
           IN
           IF ~ai_prompt.some
           THEN /\ Return(p, d, MyError_ConversationEmptyFail, <<>>, NoPayload)
                /\ lastLock' = NoLock
                /\ UNCHANGED <<conversations, writer>>
           ELSE /\ Goto(p, "am_wait",
                        [d EXCEPT !.ai = "sent", !.prompt = ai_prompt.item,
                                  !.context = ai_prompt.rest])
                /\ conversations' =
                      [conversations EXCEPT ![id] = ConvAfterPop(@)]
                /\ writer' = HeldAcrossSend(p)
                /\ lastLock' = [op |-> "new_conversation_assistant_message",
                                id |-> id, title |-> <<>>, appended |-> FALSE]
    /\ UNCHANGED <<readers, disk, failed, buf, clock, log>>

\* send_message returns Ok: add_event, the block ends and drops the guard.
new_conversation_assistant_message_reply(p) ==
    /\ pc[p] = "am_wait"
    /\ clock < MaxClock
    /\ \E response \in AiReplies :
        LET id == call[p].conversation_id IN
        /\ conversations' = [conversations EXCEPT ![id] =
              AddEvent(@, MessageAdded("Assistant", response), clock + 1)]
        /\ Goto(p, "am_save",
                [call[p] EXCEPT !.ai = "ok", !.arg = response,
                                !.stamp = clock + 1,
                                !.preDisk = EmptyRegistry])
    /\ lastLock' = [lastLock EXCEPT !.appended = TRUE]
    /\ clock' = clock + 1
    /\ log' = Append(log, conversations')
    /\ writer' = None
    /\ UNCHANGED <<readers, disk, failed, buf>>

\* Faulty variant, for comparison: the failed send still records an (empty) reply before returning.
new_conversation_assistant_message_fail_recorded(p) ==
    /\ pc[p] = "am_wait"
    /\ conversations' = [conversations EXCEPT ![call[p].conversation_id] =
          AddEvent(@, MessageAdded("Assistant", <<>>), clock)]
    /\ Return(p, [call[p] EXCEPT !.ai = "fail"],
              MyError_ConversationAIResponseFail, <<>>, NoPayload)
    /\ writer' = None
    /\ UNCHANGED <<readers, disk, failed, buf, clock, log, lastLock>>

\* send_message returns Err: `?` returns and drops the guard.
new_conversation_assistant_message_fail(p) ==
    /\ pc[p] = "am_wait"
    /\ Return(p, [call[p] EXCEPT !.ai = "fail"],
              MyError_ConversationAIResponseFail, <<>>, NoPayload)
    /\ writer' = None
    /\ UNCHANGED <<conversations, readers, disk, failed, buf, clock, log, lastLock>>

new_conversation_assistant_message_save(p) ==
    SaveUnderReadGuard(p, "am_save", "am_write")

new_conversation_assistant_message_write(p) ==
    WriteUnderReadGuard(p, "am_write", "am_emit")

new_conversation_assistant_message_emit(p) ==
    Emit(p, "am_emit",
         Payload("conversation_message_added", call[p].conversation_id, <<>>,
                 "Assistant", call[p].arg, call[p].stamp),
         <<>>)

----------------------------------------------------------------------------
\* The commands, as tauri dispatches them on its async runtime

\* A step of a command.
Step ==
    \/ list_conversation_titles
    \/ get_conversation
    \/ get_conversation_title
    \/ get_conversation_messages
    \/ \E p \in Procs :
        \/ new_conversation_lock(p)
        \/ new_conversation_save(p)
        \/ new_conversation_emit(p)
        \/ set_conversation_title_lock(p)
        \/ set_conversation_title_save(p)
        \/ set_conversation_title_write(p)
        \/ set_conversation_title_emit(p)
        \/ new_conversation_user_message_lock(p)
        \/ new_conversation_user_message_save(p)
        \/ new_conversation_user_message_write(p)
        \/ new_conversation_user_message_emit(p)
        \/ new_conversation_assistant_message_lock(p)
        \/ new_conversation_assistant_message_reply(p)
        \/ new_conversation_assistant_message_fail(p)
        \/ new_conversation_assistant_message_save(p)
        \/ new_conversation_assistant_message_write(p)
        \/ new_conversation_assistant_message_emit(p)

\* tauri hands the result of the command that returned to the front end.
\* Nothing else changes, so it is taken right after the return.
Deliver ==
    /\ ret # NoRet
    /\ ret' = NoRet
    /\ UNCHANGED <<conversations, writer, readers, disk, failed, pc, call, buf, clock,
                   lastLock, log>>

Next ==
    \/ ret = NoRet /\ Step
    \/ Deliver

Spec == Init /\ [][Next]_vars

----------------------------------------------------------------------------
\* Vocabulary of the properties

\* Positions where the invocation has changed the registry and its save has
\* not ended.
UnsavedLabels ==
    {"nc_save", "st_save", "st_write", "um_save", "um_write", "am_save",
     "am_write"}

\* Positions from the moment a mutating invocation took the write guard to
\* the end of its save.
InProgressLabels == UnsavedLabels \cup {"am_wait"}

EmitLabels == {"nc_emit", "st_emit", "um_emit", "am_emit"}

LookupOps == ReadOps \ {"list_conversation_titles"}

\* The step just taken returned from inside a lock guard it had just taken:
\* a read, or a mutating command that found nothing to do.
ReturnedUnderGuard ==
    /\ ret.op # None
    /\ ret.wellformed
    /\ ret.saved = None
    /\ ret.ai = None

\* The places of the file's content in the sequence of registry states.
DiskIndices == {i \in 1..Len(log) : log[i] = disk}

\* The file holds the mutation made at time k.
DiskHas(k) == \E i \in DiskIndices : i >= k + 1

\* The positions of the MessageAdded records in a history, and the k-th one.
MessagePositions(history) ==
    {i \in 1..Len(history) : history[i].event.type = "MessageAdded"}

NthMessage(history, k) ==
    CHOOSE i \in MessagePositions(history) :
        Cardinality({j \in MessagePositions(history) : j <= i}) = k

\* The positions of the TitleChanged records in a history.
TitlePositions(history) ==
    {i \in 1..Len(history) : history[i].event.type = "TitleChanged"}

\* The new_title of the last TitleChanged record, or "New Conversation".
LastTitleChanged(history) ==
    IF TitlePositions(history) = {}
    THEN <<"New", " ", "Conversation">>
    ELSE LET last == CHOOSE i \in TitlePositions(history) :
                        \A j \in TitlePositions(history) : j <= i
         IN history[last].event.new_title

IsPrefix(s, t) == Len(s) <= Len(t) /\ SubSeq(t, 1, Len(s)) = s

\* Registry r has every conversation of registry s, each with a history that
\* starts with the one it has in s.
Extends(r, s) ==
    \A id \in DOMAIN s :
       /\ id \in DOMAIN r
       /\ IsPrefix(s[id].history, r[id].history)

\* Registry r holds the mutation made at time k.
Includes(r, k) == Extends(r, log[k + 1])

\* The save of p ends well in this step.
SaveSucceeds(p) == call[p].saved = None /\ call'[p].saved = "ok"

\* The step just taken returned from an emit_all that failed: the save had
\* succeeded and nothing was emitted.
EmitFailed == ret.saved = "ok" /\ ret.payload = NoPayload

\* The (author, content) pairs of the MessageAdded records, in their order.
MessagePairs(history) ==
    [k \in 1..Cardinality(MessagePositions(history)) |->
        [author |-> history[NthMessage(history, k)].event.author,
         content |-> history[NthMessage(history, k)].event.content]]

\* Positions of new_conversation_assistant_message after its reply was added.
RepliedLabels == {"am_save", "am_write", "am_emit"}

\* What new_conversation_assistant_message does once the prompt is chosen:
\* the context sent is the message projection before the prompt, one
\* Assistant MessageAdded with the returned text is appended, and the
\* notification carries that text.
ReplyRecorded ==
    /\ \A p \in Procs :
          pc[p] \in RepliedLabels
             => LET id == call[p].conversation_id
                    k == call[p].stamp
                IN
                /\ call[p].arg \in AiReplies
                /\ log[k] = call[p].pre
                /\ log[k + 1] =
                      [log[k] EXCEPT ![id].history =
                          Append(@, [event |-> [type |-> "MessageAdded",
                                                author |-> "Assistant",
                                                content |-> call[p].arg],
                                     timestamp |-> k])]
    /\ ( /\ ret.op = "new_conversation_assistant_message"
         /\ ret.payload # NoPayload )
          => /\ ret.payload.name = "conversation_message_added"
             /\ ret.payload.conversation_id = ret.conversation_id
             /\ ret.payload.author = "Assistant"
             /\ ret.payload.content = ret.arg
             /\ ret.arg \in AiReplies

\* Registry r is registry s with one more entry, whose history is empty.
OneInsert(r, s) ==
    \E id \in DOMAIN r \ DOMAIN s :
       /\ DOMAIN r = DOMAIN s \cup {id}
       /\ r[id] = [id |-> id, history |-> <<>>]
       /\ \A u \in DOMAIN s : r[u] = s[u]

\* Registry r is registry s with `event` appended to the history of id.
OneAppend(r, s, id, event) ==
    /\ DOMAIN r = DOMAIN s
    /\ id \in DOMAIN s
    /\ r[id].id = s[id].id
    /\ Len(r[id].history) = Len(s[id].history) + 1
    /\ SubSeq(r[id].history, 1, Len(s[id].history)) = s[id].history
    /\ r[id].history[Len(r[id].history)].event = event
    /\ \A u \in DOMAIN s \ {id} : r[u] = s[u]

\* The event a command past its append has appended.
AppendedEvent(c) ==
    CASE c.op = "set_conversation_title" ->
            [type |-> "TitleChanged", new_title |-> c.arg]
      [] c.op = "new_conversation_user_message" ->
            [type |-> "MessageAdded", author |-> "User", content |-> c.arg]
      [] c.op = "new_conversation_assistant_message" ->
            [type |-> "MessageAdded", author |-> "Assistant",
             content |-> c.arg]

AppendedLabels ==
    {"st_save", "st_write", "st_emit", "um_save", "um_write", "um_emit",
     "am_save", "am_write", "am_emit"}

\* Text t neither starts nor ends with white space.
NoOuterSpace(t) ==
    t = <<>> \/ (t[1] \notin {" "} /\ t[Len(t)] \notin {" "})

\* Text t is raw without the white space around it.
IsTrimOf(t, raw) ==
    /\ NoOuterSpace(t)
    /\ \E i \in 0..Len(raw) :
          /\ i + Len(t) <= Len(raw)
          /\ SubSeq(raw, i + 1, i + Len(t)) = t
          /\ \A j \in 1..Len(raw) :
                (j <= i \/ j > i + Len(t)) => raw[j] = " "

----------------------------------------------------------------------------
\* C1: every mutating command saves while it still holds the write guard it
\* mutated under: between its insert or append and the end of its save, the
\* guard is its own.
C1_SaveUnderWriteGuard ==
    \A p \in Procs : pc[p] \in UnsavedLabels => writer = p

\* C2: a notification is emitted only after a save whose snapshot holds the
\* command's mutation has succeeded; after a failed save the command returns
\* ConversationWriteToDiskFail and emits nothing.
C2_NotifyAfterSave ==
    /\ \A p \in Procs :
          pc[p] \in EmitLabels
             => call[p].saved = "ok" /\ DiskHas(call[p].stamp)
    /\ ret.payload # NoPayload
          => /\ ret.saved = "ok"
             /\ ret.payload.stamp = ret.stamp
             /\ DiskHas(ret.stamp)
    /\ ret.saved = "fail"
          => /\ ret.err = MyError_ConversationWriteToDiskFail
             /\ ret.payload = NoPayload

C2_Witness ==
    /\ ret.op = "set_conversation_title"
    /\ ret.payload # NoPayload
    /\ \E p \in Procs : pc[p] = "um_emit"

\* C3: when send_message fails, the command returns
\* ConversationAIResponseFail, the write guard is released, every history is
\* what it was when the command took the guard, nothing was saved and nothing
\* was emitted.
C3_AIFailLeavesState ==
    (ret.op = "new_conversation_assistant_message" /\ ret.ai = "fail")
       => /\ ret.err = MyError_ConversationAIResponseFail
          /\ writer = None
          /\ conversations = ret.pre
          /\ disk = ret.preDisk
          /\ ret.stamp = 0
          /\ ret.saved = None
          /\ ret.payload = NoPayload

C3_Witness ==
    /\ ret.op = "new_conversation_assistant_message"
    /\ ret.ai = "fail"
    /\ ret.err = MyError_ConversationAIResponseFail
    /\ Cardinality(DOMAIN conversations) = 2

\* C4, as the spec states it: two set_conversation_title in a row with the
\* same trimmed title append exactly one TitleChanged between them.
C4_ExactlyOneEvent ==
    (ret.op = "set_conversation_title" /\ ret.second # "no")
       => (IF ret.second = "after_append" THEN 1 ELSE 0)
          + (IF ret.stamp # 0 THEN 1 ELSE 0) = 1

\* C4, amended: the second of two set_conversation_title in a row with the
\* same trimmed title returns Ok without appending, saving or emitting, so
\* the two append at most one event (one when the first call appended).
C4_SecondCallIsNoOp ==
    /\ \A p \in Procs : call[p].second = "no"
    /\ (ret.op = "set_conversation_title" /\ ret.second # "no")
          => /\ ret.err = None
             /\ ret.stamp = 0
             /\ ret.saved = None
             /\ ret.payload = NoPayload
             /\ conversations = ret.pre
             /\ disk = ret.preDisk

C4_Witness ==
    /\ ret.op = "set_conversation_title"
    /\ ret.second = "after_append"
    /\ ret.err = None

\* C5: new_conversation_assistant_message on a conversation with no events
\* returns ConversationEmptyFail, sends nothing to the adapter and leaves
\* the registry and the file as they were.
C5_EmptyConversation ==
    /\ \A p \in Procs :
          call[p].ai # None
             => call[p].pre[call[p].conversation_id].history # <<>>
    /\ ( /\ ret.op = "new_conversation_assistant_message"
         /\ ret.found
         /\ ret.pre[ret.conversation_id].history = <<>> )
          => /\ ret.err = MyError_ConversationEmptyFail
             /\ ret.ai = None
             /\ conversations = ret.pre
             /\ disk = ret.preDisk

C5_Witness ==
    /\ ret.op = "new_conversation_assistant_message"
    /\ ret.found
    /\ ret.pre[ret.conversation_id].history = <<>>
    /\ disk # EmptyRegistry

\* C6: a read command given a malformed id fails with BadId, which is not
\* the NotFound it gives for a well-formed id that is absent.
C6_ReadBadId ==
    /\ BadId # NotFound
    /\ (ret.op \in LookupOps /\ ~ret.wellformed) => ret.err = BadId
    /\ (ret.op \in LookupOps /\ ret.wellformed /\ ~ret.found)
          => ret.err = NotFound

\* C7: the two message commands given a well-formed id that is no key of
\* the registry fail with NotFound, append nothing, save nothing and emit
\* nothing.
C7_MessageNotFound ==
    ( /\ ret.op \in {"new_conversation_user_message",
                     "new_conversation_assistant_message"}
      /\ ret.wellformed
      /\ ~ret.found )
       => /\ ret.err = NotFound
          /\ conversations = ret.pre
          /\ disk = ret.preDisk
          /\ ret.saved = None
          /\ ret.payload = NoPayload

\* C8: the file always holds the registry as it was after some prefix of the
\* sequence of mutations, and a later content of the file never is an
\* earlier registry than the one it replaces.
C8_DiskIsPrefix ==
    /\ [](DiskIndices # {})
    /\ [][\A i \in DiskIndices : \A j \in DiskIndices' : i <= j]_vars

C8_Witness ==
    /\ disk # EmptyRegistry
    /\ disk # conversations
    /\ \E p \in Procs, q \in Procs :
          /\ pc[p] = "st_write" /\ pc[q] = "um_write"
          /\ buf[p] # disk

\* C9: no read runs while a mutating command is between taking the write
\* guard and the end of its save.
C9_ReadsBlockedUntilSaved ==
    (ret.op \in ReadOps /\ ReturnedUnderGuard)
       => \A q \in Procs : pc[q] \notin InProgressLabels

\* C10: while new_conversation_assistant_message awaits send_message it
\* holds the write guard: nobody holds a read guard, the registry stays as
\* it was, and no other command runs a section under the lock.
C10_GuardHeldAcrossSend ==
    \A p \in Procs :
       pc[p] = "am_wait"
          => /\ writer = p
             /\ readers = {}
             /\ conversations = call[p].pre
             /\ ~ReturnedUnderGuard
             /\ \A q \in Procs \ {p} :
                   pc[q] \notin {"nc_save", "am_wait", "st_write", "um_write",
                                 "am_write"}

C10_Witness ==
    \E p \in Procs, q \in Procs :
       /\ pc[p] = "am_wait"
       /\ pc[q] = "um_save"
       /\ Cardinality(DOMAIN conversations) = 2

\* C11: a command that is at its emit_all holds neither the write guard nor
\* a read guard, so other commands take the lock while the emit is pending.
C11_EmitOutsideLock ==
    \A p \in Procs :
       pc[p] \in EmitLabels => writer # p /\ p \notin readers

C11_Witness ==
    \E p \in Procs, q \in Procs :
       /\ pc[p] = "nc_emit"
       /\ pc[q] = "am_wait"
       /\ writer = q

\* C12: get_conversation_messages returns one (author, content) pair for
\* each MessageAdded record of the history, in the order of the records,
\* duplicates kept, and nothing for a TitleChanged record.
C12_MessagesProjection ==
    (ret.op = "get_conversation_messages" /\ ret.found)
       => LET h == conversations[ret.conversation_id].history IN
          /\ ret.err = None
          /\ DOMAIN ret.val = 1..Cardinality(MessagePositions(h))
          /\ \A k \in DOMAIN ret.val :
                ret.val[k] = [author |-> h[NthMessage(h, k)].event.author,
                              content |-> h[NthMessage(h, k)].event.content]

C12_Witness ==
    /\ ret.op = "get_conversation_messages"
    /\ ret.found
    /\ Len(conversations[ret.conversation_id].history) = 3
    /\ Len(ret.val) = 2
    /\ ret.val[1] = ret.val[2]

\* C13: get_conversation_title, and list_conversation_titles for every key
\* of the registry, return the new_title of the last TitleChanged record of
\* the history, or "New Conversation" when the history has none.
C13_TitleIsLastTitleChanged ==
    /\ (ret.op = "get_conversation_title" /\ ret.found)
          => /\ ret.err = None
             /\ ret.val = LastTitleChanged(
                              conversations[ret.conversation_id].history)
    /\ ret.op = "list_conversation_titles"
          => /\ ret.err = None
             /\ DOMAIN ret.val = DOMAIN conversations
             /\ \A id \in DOMAIN conversations :
                   ret.val[id] = LastTitleChanged(conversations[id].history)

C13_Witness ==
    /\ ret.op = "list_conversation_titles"
    /\ DOMAIN ret.val = {"b"}
    /\ ret.val["b"] = <<"A">>
    /\ conversations["b"].history[Len(conversations["b"].history)].event.type
          = "MessageAdded"

\* C14: no step of any command, failed ones included, removes, replaces or
\* reorders a record: after the step every conversation is still there and
\* its history starts with the history it had before.  In particular the
\* pop of the prompt leaves the stored history whole.
C14_AppendOnly == [][Extends(conversations', conversations)]_vars

C14_Witness ==
    \E p \in Procs :
       /\ pc[p] = "am_wait"
       /\ Len(conversations[call[p].conversation_id].history) = 3
       /\ Len(call[p].context)
             < Len(Messages(conversations[call[p].conversation_id].history))

\* C15: a command whose save fails returns ConversationWriteToDiskFail and
\* emits nothing, while the registry keeps its mutation, then and ever after;
\* and when a save succeeds, the file is the registry as it is at that
\* moment, so it holds every mutation whose own save had failed.
C15_FailedSaveReconciled ==
    /\ [](/\ ret.saved = "fail"
              => /\ ret.err = MyError_ConversationWriteToDiskFail
                 /\ ret.payload = NoPayload
                 /\ ret.stamp \in failed
          /\ \A k \in failed : Includes(conversations, k))
    /\ [][\A p \in Procs :
            SaveSucceeds(p)
               => /\ disk' = conversations'
                  /\ \A k \in failed : Includes(disk', k)]_vars

C15_Witness ==
    \E p \in Procs :
       /\ pc[p] \in EmitLabels
       /\ call[p].saved = "ok"
       /\ \E k \in failed : k < call[p].stamp
       /\ disk = conversations
       /\ disk # log[call[p].stamp]

\* C16: a command whose emit_all fails returns EmitFail, and both the
\* registry and the file still hold the command's mutation.
C16_EmitFailKeepsMutation ==
    EmitFailed
       => /\ ret.err = MyError_EmitFail
          /\ ret.stamp # 0
          /\ Includes(conversations, ret.stamp)
          /\ Includes(disk, ret.stamp)

C16_Witness ==
    /\ EmitFailed
    /\ ret.op = "set_conversation_title"
    /\ ret.err = MyError_EmitFail
    /\ disk # log[ret.stamp]

\* C17: in the registry, now and in every earlier state, each key is the id
\* of the conversation stored under it; so the id of a conversation is the
\* one new_conversation inserted it with and never changes.
C17_KeyIsId ==
    /\ conversations = log[Len(log)]
    /\ \A i \in 1..Len(log) : \A k \in DOMAIN log[i] : log[i][k].id = k
    /\ \A k \in DOMAIN disk : disk[k].id = k

C17_Witness ==
    /\ DOMAIN conversations = {"a", "b"}
    /\ conversations["a"].history # <<>>
    /\ conversations["a"].id = "a"

\* C18, as the spec states it: the prompt of
\* new_conversation_assistant_message is the last record of the history, and
\* the context is the message projection before it; one Assistant message
\* with the returned text is appended and notified.
C18_PromptIsLastEvent ==
    /\ \A p \in Procs :
          pc[p] \in {"am_wait"} \cup RepliedLabels
             => LET h == call[p].pre[call[p].conversation_id].history
                    last == h[Len(h)].event
                IN
                /\ last.type = "MessageAdded"
                /\ call[p].prompt =
                      [author |-> last.author, content |-> last.content]
                /\ call[p].context =
                      MessagePairs(SubSeq(h, 1, Len(h) - 1))
    /\ ReplyRecorded

\* C18, amended: the prompt is the last MessageAdded record of the history,
\* whatever TitleChanged records follow it, and the context is the message
\* projection before it; a history with no MessageAdded record gives
\* ConversationEmptyFail; one Assistant message with the returned text is
\* appended and notified.
C18_PromptIsLastMessage ==
    /\ \A p \in Procs :
          pc[p] \in {"am_wait"} \cup RepliedLabels
             => LET h == call[p].pre[call[p].conversation_id].history
                    m == MessagePairs(h)
                IN
                /\ m # <<>>
                /\ call[p].prompt = m[Len(m)]
                /\ call[p].context = SubSeq(m, 1, Len(m) - 1)
    /\ ( /\ ret.op = "new_conversation_assistant_message"
         /\ ret.found
         /\ MessagePairs(ret.pre[ret.conversation_id].history) = <<>> )
          => ret.err = MyError_ConversationEmptyFail /\ ret.ai = None
    /\ ReplyRecorded

C18_Witness ==
    \E p \in Procs :
       LET h == call[p].pre[call[p].conversation_id].history IN
       /\ pc[p] = "am_emit"
       /\ h[Len(h)].event.type = "TitleChanged"
       /\ call[p].prompt = [author |-> "User", content |-> <<"hello">>]

\* C19: a step changes the registry only by one insert of a conversation
\* with an empty history or by one append to one history, all else kept;
\* the change a command made is the one of its kind (new_conversation the
\* insert, the other three one event of theirs on their conversation);
\* new_conversation_user_message on a conversation it finds always
\* appends; and a read changes neither the registry nor the file.
C19_OneStepFrame ==
    /\ [][conversations' # conversations
            => \/ OneInsert(conversations', conversations)
               \/ \E id \in DOMAIN conversations :
                     OneAppend(conversations', conversations, id,
                        conversations'[id].history[
                           Len(conversations'[id].history)].event)]_vars
    /\ [][ret'.op \in ReadOps
            => UNCHANGED <<conversations, disk, writer, readers, clock>>]_vars
    /\ [](/\ conversations = log[Len(log)]
          /\ Len(log) = clock + 1
          /\ \A p \in Procs :
                /\ pc[p] \in {"nc_save", "nc_emit"}
                      => /\ OneInsert(log[call[p].stamp + 1],
                                      log[call[p].stamp])
                         /\ call[p].conversation_id
                               \notin DOMAIN log[call[p].stamp]
                /\ pc[p] \in AppendedLabels
                      => OneAppend(log[call[p].stamp + 1], log[call[p].stamp],
                                   call[p].conversation_id,
                                   AppendedEvent(call[p]))
          /\ ( /\ ret.op = "new_conversation_user_message"
               /\ ret.found )
                => ret.stamp # 0 /\ ret.saved # None)

C19_Witness ==
    \E p \in Procs :
       /\ pc[p] = "um_save"
       /\ DOMAIN conversations = {"a", "b"}
       /\ conversations["a"].history = <<>>
       /\ Len(conversations["b"].history) = 2
       /\ conversations["b"].history[1].event
             = conversations["b"].history[2].event

\* C20: set_conversation_title with a title whose trimmed text is the
\* current title, the "New Conversation" of a history with no TitleChanged
\* included, returns Ok and appends, saves and emits nothing; and when it
\* appends, the recorded new_title and the emitted title are the trimmed
\* text of an input, free of white space around it.
C20_TrimmedTitleCompared ==
    /\ ( /\ ret.op = "set_conversation_title"
         /\ ret.found
         /\ ret.arg = LastTitleChanged(ret.pre[ret.conversation_id].history) )
          => /\ ret.err = None
             /\ ret.stamp = 0
             /\ ret.saved = None
             /\ ret.payload = NoPayload
             /\ conversations = ret.pre
             /\ disk = ret.preDisk
    /\ \A p \in Procs :
          pc[p] \in {"st_save", "st_write", "st_emit"}
             => /\ \E raw \in TitleInputs : IsTrimOf(call[p].arg, raw)
                /\ call[p].arg
                      # LastTitleChanged(
                           call[p].pre[call[p].conversation_id].history)
                /\ OneAppend(log[call[p].stamp + 1], log[call[p].stamp],
                             call[p].conversation_id,
                             [type |-> "TitleChanged",
                              new_title |-> call[p].arg])
    /\ \A id \in DOMAIN conversations :
          \A i \in TitlePositions(conversations[id].history) :
             NoOuterSpace(conversations[id].history[i].event.new_title)
    /\ ( /\ ret.op = "set_conversation_title"
         /\ ret.payload # NoPayload )
          => /\ ret.payload.name = "conversation_title_changed"
             /\ ret.payload.conversation_id = ret.conversation_id
             /\ ret.payload.title = ret.arg
             /\ \E raw \in TitleInputs : IsTrimOf(ret.payload.title, raw)

C20_Witness ==
    /\ ret.op = "set_conversation_title"
    /\ ret.found
    /\ ret.conversation_id = "a"
    /\ TitlePositions(ret.pre["a"].history) = {}
    /\ ret.arg = <<"New", " ", "Conversation">>
    /\ ret.err = None
    /\ ret.stamp = 0

====
